---- MODULE Spec2Model ----
(***************************************************************************)
(* A model of dictlearn/stuff.py (the DebugLSTM recurrent brick) and of    *)
(* the definition dictionary exercised by tests/test_dict.py.              *)
(*                                                                         *)
(* Tensors are modelled over the integers: a matrix is a sequence of rows, *)
(* a row a sequence of integers.  The two pluggable activation bricks are  *)
(* modelled by their saturated integer forms (Tanh -> clip to -1..1,       *)
(* Logistic -> unit step), so that every product and sum of the transition *)
(* is computed exactly.                                                    *)
(*                                                                         *)
(* The brick builds a symbolic graph; a call is modelled together with the *)
(* evaluation of its graph on concrete tensors.  Two facts of the tensor   *)
(* library decide what the code does and are modelled as such: a tensor    *)
(* variable is true in `if mask:` whatever values it holds, and an         *)
(* elementwise sum repeats an axis typed broadcastable while any other     *)
(* axis must match in length, else the evaluation raises.                  *)
(***************************************************************************)
EXTENDS Integers, Sequences, FiniteSets, TLC

\* ------------------------------------------------------------------ bounds
Dim == 2          \* the `dim` constructor argument
MaxBatch == 2     \* largest batch size handed to initial_states
MaxSteps == 2     \* time steps of one forward pass
MaxSeed == 1      \* seeds of the random number generator used by _initialize
MaxRecords == 3   \* records of a persisted dictionary file
MaxLookups == 2   \* get_definitions calls on one Dictionary

\* mask=None, and a mask tensor of one entry per batch row
None == [given |-> FALSE, val |-> <<>>]
Tensor(m) == [given |-> TRUE, val |-> m]

VARIABLES
    \* DebugLSTM parameters (stuff.py, _allocate)
    W_state, W_cell_to_in, W_cell_to_forget, W_cell_to_out,
    initial_state_, initial_cells,
    \* the recurrent state carried from one time step to the next
    states, cells,
    batch_size,   \* number of batch rows of the running forward pass (0: none)
    t,            \* time steps taken in the running forward pass
    args,         \* arguments of the last apply call
    results,      \* what inner_apply returned in the last apply call
    aux,          \* auxiliary variables registered by the last apply call
    ret,          \* what the last apply call returned
    \* Dictionary
    file,         \* content of the persisted dictionary file
    dict_status,  \* "unloaded", "loaded", or "load-error"
    data,         \* the key -> definitions mapping once loaded
    lookups,      \* get_definitions calls made
    query,        \* argument of the last get_definitions call
    defs,         \* result of the last get_definitions call
    lookup_error  \* whether the last get_definitions call raised

lstmVars == <<W_state, W_cell_to_in, W_cell_to_forget, W_cell_to_out,
              initial_state_, initial_cells, states, cells, batch_size, t,
              args, results, aux, ret>>
dictVars == <<file, dict_status, data, lookups, query, defs, lookup_error>>
vars == <<lstmVars, dictVars>>

\* ------------------------------------------------------- tensor operations
Rows(x) == Len(x)
Cols(x) == IF Len(x) = 0 THEN 0 ELSE Len(x[1])

\* A vector given entry by entry, as a sequence; a matrix is a vector of rows.
vector(f) == f \o <<>>

RECURSIVE SumTo(_, _)
SumTo(f, n) == IF n = 0 THEN 0 ELSE f[n] + SumTo(f, n - 1)

\* tensor.dot(a, b) of an (n, k) and a (k, m) matrix
dot(a, b) ==
    vector([i \in 1..Rows(a) |-> vector([j \in 1..Cols(b) |->
        SumTo([k \in 1..Rows(b) |-> a[i][k] * b[k][j]], Rows(b))])])

\* x + y, x * y of two matrices of one shape
add(x, y) == vector([i \in 1..Rows(x) |-> vector([j \in 1..Cols(x) |->
        x[i][j] + y[i][j]])])
mul(x, y) == vector([i \in 1..Rows(x) |-> vector([j \in 1..Cols(x) |->
        x[i][j] * y[i][j]])])

\* x * w of a (batch, dim) matrix and a (dim,) vector: w is applied to each row
mul_vector(x, w) == vector([i \in 1..Rows(x) |-> vector([j \in 1..Cols(x) |->
        x[i][j] * w[j]])])

\* (faulty variant: the first row's mask entry scales every row)
mul_mask_of_first_row(mask, x) ==
    vector([i \in 1..Rows(x) |-> vector([j \in 1..Cols(x) |->
        mask.val[1] * x[i][j]])])
\* mask[:, None] * x and 1 - mask
mul_mask(mask, x) == vector([i \in 1..Rows(x) |-> vector([j \in 1..Cols(x) |->
        mask.val[i] * x[i][j]])])
one_minus(mask) == Tensor(vector([i \in 1..Len(mask.val) |-> 1 - mask.val[i]]))

\* tensor.repeat(x, repeats, 0): every row of x, `repeats` times in a row
repeat(x, repeats) ==
    vector([i \in 1..(Rows(x) * repeats) |-> x[((i - 1) \div repeats) + 1]])

\* v[None, :]
as_row(v) == <<v>>

\* The activation bricks set up by __init__ when none is passed.
Tanh(x) ==
    vector([i \in 1..Rows(x) |-> vector([j \in 1..Cols(x) |->
        IF x[i][j] > 1 THEN 1 ELSE IF x[i][j] < -1 THEN -1 ELSE x[i][j]])])
Logistic(x) ==
    vector([i \in 1..Rows(x) |-> vector([j \in 1..Cols(x) |->
        IF x[i][j] > 0 THEN 1 ELSE 0])])

\* An input tensor is [val |-> matrix, bcast |-> BOOLEAN]: bcast is the
\* broadcastable flag of its last axis (set only on an axis of length 1).
\* The elementwise sum of the (batch, 4*dim) projection and the inputs:
\* an axis flagged broadcastable is repeated, any other axis must have
\* the very length of the projection's.
\* The outcome is [raised |-> BOOLEAN, val |-> the sum].
add_inputs(x, inputs) ==
    IF inputs.bcast
    THEN [raised |-> FALSE,
          val |-> vector([i \in 1..Rows(x) |-> vector([j \in 1..Cols(x) |->
        x[i][j] + inputs.val[i][1]])])]
    ELSE IF Cols(inputs.val) = Cols(x)
         THEN [raised |-> FALSE, val |-> add(x, inputs.val)]
         ELSE [raised |-> TRUE, val |-> <<>>]

get_dim(name) ==
    CASE name = "inputs" -> Dim * 4
      [] name \in {"states", "cells"} -> Dim
      [] name = "mask" -> 0

\* ------------------------------------------------------------- the brick
\* (faulty variant: x[:, no::4], every fourth column)
slice_last_strided(x, no) ==
    vector([i \in 1..Rows(x) |->
        vector([j \in 1..Dim |-> x[i][no + 1 + 4 * (j - 1)]])])
\* x[:, no*dim : (no+1)*dim]
slice_last(x, no) ==
    vector([i \in 1..Rows(x) |-> SubSeq(x[i], no * Dim + 1, (no + 1) * Dim)])

\* (faulty variant: the truth of the mask's entries, false when all are 0)
truth_of_values(mask) ==
    mask.given /\ \E i \in 1..Len(mask.val) : mask.val[i] # 0
\* `if mask:` on the symbolic mask: a tensor variable is true whatever it
\* holds, None is false.
truth(mask) == mask.given

\* (faulty variant: the previous value is added unscaled)
blend_adding_old(mask, new, old) == add(mul_mask(mask, new), old)
\* mask[:, None] * new + (1 - mask[:, None]) * old
blend(mask, new, old) == add(mul_mask(mask, new), mul_mask(one_minus(mask), old))

\* The outcome is [status |-> "returned", out |-> the five results], or
\* [status |-> "raised", out |-> <<>>] when the sum with the inputs fails.
inner_apply(inputs, s, c, mask) ==
    LET sum == add_inputs(dot(s, W_state), inputs)
        activation == sum.val
    IN  IF sum.raised
        THEN [status |-> "raised", out |-> <<>>]
        ELSE
          LET in_gate == Logistic(add(slice_last(activation, 0),
                                      mul_vector(c, W_cell_to_in)))
              forget_gate == Logistic(add(slice_last(activation, 1),
                                          mul_vector(c, W_cell_to_forget)))
              next_cells == add(mul(forget_gate, c),
                                mul(in_gate, Tanh(slice_last(activation, 2))))
              out_gate == Logistic(add(slice_last(activation, 3),
                                       mul_vector(next_cells, W_cell_to_out)))
              next_states == mul(out_gate, Tanh(next_cells))
          IN  [status |-> "returned",
               out |-> IF truth(mask)
                       THEN <<blend(mask, next_states, s),
                              blend(mask, next_cells, c),
                              in_gate, forget_gate, out_gate>>
                       ELSE <<next_states, next_cells,
                              in_gate, forget_gate, out_gate>>]

\* (faulty variant: the two initial vectors exchanged)
initial_states_swapped(n) ==
    <<repeat(as_row(initial_cells), n), repeat(as_row(initial_state_), n)>>
\* initial_states(batch_size)
initial_states_of(n) ==
    <<repeat(as_row(initial_state_), n), repeat(as_row(initial_cells), n)>>

\* weights_init.initialize(weights, rng) for the no-th parameter drawn from
\* the generator: a constant initialiser, or values spread over -1..1.
Schemes == {"Constant0", "Constant1", "Uniform"}
draw(scheme, rng, no, i, j) ==
    CASE scheme = "Constant0" -> 0
      [] scheme = "Constant1" -> 1
      [] scheme = "Uniform" -> ((rng + no + i + 2 * j) % 3) - 1
initialize_matrix(scheme, rng, no, n, m) ==
    vector([i \in 1..n |-> vector([j \in 1..m |->
        draw(scheme, rng, no, i, j)])])
initialize_vector(scheme, rng, no, n) ==
    vector([j \in 1..n |-> draw(scheme, rng, no, 0, j)])

zeros(n) == [j \in 1..n |-> 0]

\* ----------------------------------------------------------- input spaces
\* An input row drives the pre-activations of the slices in S up and the
\* others down: no slice, one slice, or all four.
InputRows ==
    {vector([j \in 1..(4 * Dim) |-> IF ((j - 1) \div Dim) \in S THEN 1 ELSE -1]) :
        S \in {{}, {0}, {1}, {2}, {3}, 0..3}}
Widths == {1, get_dim("inputs") - 1, get_dim("inputs") + 1}
BadRow(w) == vector([j \in 1..w |-> 1])
Inputs(n) ==
    {[val |-> m, bcast |-> FALSE] : m \in [1..n -> InputRows]}
    \cup {[val |-> [i \in 1..n |-> BadRow(w)], bcast |-> FALSE] : w \in Widths}
    \cup {[val |-> [i \in 1..n |-> <<v>>], bcast |-> TRUE] : v \in {-1, 1}}
Masks(n) == {None} \cup {Tensor(m) : m \in [1..n -> {0, 1}]}
LearnedVectors == {[j \in 1..Dim |-> v] : v \in 0..1}

NoCall == [inputs |-> [val |-> <<>>, bcast |-> FALSE],
           states |-> <<>>, cells |-> <<>>, mask |-> None]
NoResults == [status |-> "none", out |-> <<>>]
NoAux == [input_gates |-> <<>>, forget_gates |-> <<>>, output_gates |-> <<>>]

\* ------------------------------------------------------------------- Init
InitLSTM ==
    /\ \E scheme \in Schemes, rng \in 0..MaxSeed :
        /\ W_state = initialize_matrix(scheme, rng, 0, Dim, 4 * Dim)
        /\ W_cell_to_in = initialize_vector(scheme, rng, 1, Dim)
        /\ W_cell_to_forget = initialize_vector(scheme, rng, 2, Dim)
        /\ W_cell_to_out = initialize_vector(scheme, rng, 3, Dim)
    /\ initial_state_ = zeros(Dim)
    /\ initial_cells = zeros(Dim)
    /\ states = <<>>
    /\ cells = <<>>
    /\ batch_size = 0
    /\ t = 0
    /\ args = NoCall
    /\ results = NoResults
    /\ aux = NoAux
    /\ ret = <<>>

NoDict ==
    /\ file = <<>>
    /\ dict_status = "unloaded"
    /\ data = <<>>
    /\ lookups = 0
    /\ query = ""
    /\ defs = <<>>
    /\ lookup_error = FALSE

Init == InitLSTM /\ NoDict

\* ---------------------------------------------------------------- actions
\* The training algorithm writes the learned initial vectors (they are
\* listed in self.parameters with the INITIAL_STATE role) between passes.
set_initial_parameters ==
    /\ batch_size = 0
    /\ \E v \in LearnedVectors, w \in LearnedVectors :
        /\ initial_state_' = v
        /\ initial_cells' = w
    /\ UNCHANGED <<W_state, W_cell_to_in, W_cell_to_forget, W_cell_to_out,
                   states, cells, batch_size, t, args, results, aux, ret>>
    /\ UNCHANGED dictVars

\* initial_states(batch_size): the states a forward pass starts from.
initial_states ==
    /\ batch_size = 0
    /\ \E n \in 1..MaxBatch :
        /\ batch_size' = n
        /\ states' = initial_states_of(n)[1]
        /\ cells' = initial_states_of(n)[2]
    /\ t' = 0
    /\ UNCHANGED <<W_state, W_cell_to_in, W_cell_to_forget, W_cell_to_out,
                   initial_state_, initial_cells, args, results, aux, ret>>
    /\ UNCHANGED dictVars

\* What apply registers, given the results of inner_apply.
auxiliary_variables(r) ==
    [input_gates |-> r[3], forget_gates |-> r[4], output_gates |-> r[5]]
\* (faulty variant: results[1:3])
apply_outputs_shifted(r) == SubSeq(r, 2, 3)
\* What apply returns: results[:2]
apply_outputs(r) == SubSeq(r, 1, 2)

\* apply(inputs, states, cells, mask) for one time step; the states and
\* cells it returns are the ones the next time step is given.
apply ==
    /\ batch_size > 0
    /\ t < MaxSteps
    /\ \E inputs \in Inputs(batch_size), mask \in Masks(batch_size) :
        \E r \in {inner_apply(inputs, states, cells, mask)} :
            /\ args' = [inputs |-> inputs, states |-> states,
                        cells |-> cells, mask |-> mask]
            /\ results' = r
            /\ IF r.status = "raised"
               THEN /\ aux' = NoAux
                    /\ ret' = <<>>
                    /\ UNCHANGED <<states, cells>>
               ELSE /\ aux' = auxiliary_variables(r.out)
                    /\ ret' = apply_outputs(r.out)
                    /\ states' = apply_outputs(r.out)[1]
                    /\ cells' = apply_outputs(r.out)[2]
    /\ t' = t + 1
    /\ UNCHANGED <<W_state, W_cell_to_in, W_cell_to_forget, W_cell_to_out,
                   initial_state_, initial_cells, batch_size>>
    /\ UNCHANGED dictVars

Next == set_initial_parameters \/ initial_states \/ apply

Spec == Init /\ [][Next]_vars

\* ------------------------------------------------------------ Dictionary
\* dictlearn/retrieval.py is modelled from its contract: the persisted file
\* is a list of records, one per key, whose value is an ordered list of
\* definitions, each an ordered list of tokens.
Keys == {"a", "d c", "d", "c"}
Queries == Keys \cup {"c d", "e"}
Definitions == {<<<<"b", "c">>, <<"d", "e">>>>, <<<<"a", "b">>>>, <<<<"e">>>>}
Records ==
    {[key |-> k, value |-> v, well_formed |-> TRUE] : k \in Keys, v \in Definitions}
    \cup {[key |-> "", value |-> <<>>, well_formed |-> FALSE]}
Files == UNION {[1..n -> Records] : n \in 0..MaxRecords}

\* TEST_DICT_JSON of tests/test_dict.py
TEST_DICT_JSON ==
    <<[key |-> "a", value |-> <<<<"b", "c">>, <<"d", "e">>>>, well_formed |-> TRUE],
      [key |-> "d c", value |-> <<<<"a", "b">>>>, well_formed |-> TRUE]>>

\* The mapping a well-formed file yields: the last record of a key stands.
parse(f) ==
    [k \in {f[i].key : i \in 1..Len(f)} |->
        LET last == CHOOSE i \in 1..Len(f) :
                        /\ f[i].key = k
                        /\ \A j \in (i + 1)..Len(f) : f[j].key # k
        IN  f[last].value]

\* (faulty variant: a phrase is answered from its tokens' entries)
get_definitions_by_token(d, key) ==
    IF key = "d c"
    THEN (IF "d" \in DOMAIN d THEN d["d"] ELSE <<>>)
         \o (IF "c" \in DOMAIN d THEN d["c"] ELSE <<>>)
    ELSE IF key \in DOMAIN d THEN d[key] ELSE <<>>
\* (faulty variant: an absent key is answered with some stored entry)
get_definitions_of_any(d, key) ==
    IF key \in DOMAIN d THEN d[key]
    ELSE IF DOMAIN d = {} THEN <<>> ELSE d[CHOOSE k \in DOMAIN d : TRUE]
\* get_definitions(key): the definition list stored under the whole query
\* string, the empty list when the mapping has no such key.
get_definitions_of(d, key) == IF key \in DOMAIN d THEN d[key] ELSE <<>>

NoLSTM ==
    /\ W_state = <<>>
    /\ W_cell_to_in = <<>>
    /\ W_cell_to_forget = <<>>
    /\ W_cell_to_out = <<>>
    /\ initial_state_ = <<>>
    /\ initial_cells = <<>>
    /\ states = <<>>
    /\ cells = <<>>
    /\ batch_size = 0
    /\ t = 0
    /\ args = NoCall
    /\ results = NoResults
    /\ aux = NoAux
    /\ ret = <<>>

InitDict ==
    /\ NoLSTM
    /\ file \in Files
    /\ dict_status = "unloaded"
    /\ data = <<>>
    /\ lookups = 0
    /\ query = ""
    /\ defs = <<>>
    /\ lookup_error = FALSE

\* Dictionary(path): the file is read once; an unparsable record is fatal.
load ==
    /\ dict_status = "unloaded"
    /\ IF \E i \in 1..Len(file) : ~file[i].well_formed
       THEN /\ dict_status' = "load-error"
            /\ UNCHANGED data
       ELSE /\ dict_status' = "loaded"
            /\ data' = parse(file)
    /\ UNCHANGED <<file, lookups, query, defs, lookup_error>>
    /\ UNCHANGED lstmVars

get_definitions ==
    /\ dict_status = "loaded"
    /\ lookups < MaxLookups
    /\ \E key \in Queries :
        /\ query' = key
        /\ defs' = get_definitions_of(data, key)
    /\ lookup_error' = FALSE
    /\ lookups' = lookups + 1
    /\ UNCHANGED <<file, dict_status, data>>
    /\ UNCHANGED lstmVars

NextDict == load \/ get_definitions

SpecDict == InitDict /\ [][NextDict]_vars

\* ----------------------------------------------------------------- claims
Called == results.status # "none"
Returned == results.status = "returned"
MaskIs(m, v) == m.given /\ \A i \in 1..Len(m.val) : m.val[i] = v
Unmasked == inner_apply(args.inputs, args.states, args.cells, None).out

\* C1: a step whose mask is supplied and 0 on every batch row returns the
\* hidden and cell states it was given, and the state pair carried to the
\* next step is the one carried into it, step after step.
C1_ZeroMaskReturnsGiven ==
    (Returned /\ MaskIs(args.mask, 0)) =>
        /\ results.out[1] = args.states
        /\ results.out[2] = args.cells
C1_ZeroMaskCarries ==
    (t' = t + 1 /\ results'.status = "returned" /\ MaskIs(args'.mask, 0)) =>
        /\ states' = states
        /\ cells' = cells
C1_ZeroMaskNoUpdate == []C1_ZeroMaskReturnsGiven /\ [][C1_ZeroMaskCarries]_vars
\* A second all-zero step in a row, on a state the unmasked step would change.
C1_Witness ==
    /\ t = 2 /\ Returned /\ MaskIs(args.mask, 0) /\ batch_size = 2
    /\ Unmasked[1] # args.states
    /\ Unmasked[2] # args.cells
    /\ states = args.states /\ cells = args.cells

\* C2: a step whose mask is 1 on every batch row returns the next hidden and
\* cell states of the same step made with mask=None.
C2_OnesMaskIsUnmasked ==
    (Returned /\ MaskIs(args.mask, 1)) =>
        /\ results.out[1] = Unmasked[1]
        /\ results.out[2] = Unmasked[2]
C2_Witness ==
    /\ Returned /\ MaskIs(args.mask, 1) /\ batch_size = 2
    /\ results.out[1] # args.states
    /\ results.out[2] # args.cells
    /\ \E i \in 1..2, j \in 1..Dim : args.states[i][j] # 0
    /\ \E i \in 1..2, j \in 1..Dim : args.cells[i][j] # 0

\* C5: initial_states(N) returns N rows of length dim for the hidden state,
\* each equal to the initial_state parameter, and N rows for the cells, each
\* equal to the initial_cells parameter.
C5_InitialStatesBroadcast ==
    (batch_size > 0 /\ t = 0) =>
        /\ Len(states) = batch_size
        /\ Len(cells) = batch_size
        /\ \A i \in 1..batch_size :
            /\ states[i] = initial_state_ /\ Len(states[i]) = Dim
            /\ cells[i] = initial_cells /\ Len(cells[i]) = Dim
C5_Witness ==
    /\ batch_size = 2 /\ t = 0
    /\ initial_state_ # initial_cells
    /\ states = <<initial_state_, initial_state_>>
    /\ cells = <<initial_cells, initial_cells>>

\* C6: a step whose inputs are not exactly 4*dim wide ends in a dimension
\* mismatch error and returns nothing.
C6_WrongWidthRaises ==
    (Called /\ Cols(args.inputs.val) # get_dim("inputs")) =>
        /\ results.status = "raised"
        /\ results.out = <<>>

\* C7: under a mask mixing 0 and 1, a row masked 0 keeps its previous hidden
\* and cell values, a row masked 1 gets the values of the unmasked step, and
\* a row's result is the same under every mask that agrees on that row.
C7_RowwiseMask ==
    (Returned /\ args.mask.given) =>
        \A i \in 1..batch_size :
            /\ results.out[1][i] =
                 IF args.mask.val[i] = 0 THEN args.states[i] ELSE Unmasked[1][i]
            /\ results.out[2][i] =
                 IF args.mask.val[i] = 0 THEN args.cells[i] ELSE Unmasked[2][i]
            /\ \A m \in Masks(batch_size) :
                 (m.given /\ m.val[i] = args.mask.val[i]) =>
                    LET other == inner_apply(args.inputs, args.states,
                                             args.cells, m).out
                    IN  /\ other[1][i] = results.out[1][i]
                        /\ other[2][i] = results.out[2][i]
C7_Witness ==
    /\ Returned /\ batch_size = 2
    /\ args.mask = Tensor(<<0, 1>>)
    /\ Unmasked[1][1] # args.states[1] /\ Unmasked[2][1] # args.cells[1]
    /\ results.out[1][2] # args.states[2] /\ results.out[2][2] # args.cells[2]

\* C8: the unmasked step uses the four dim-wide column slices of
\* states . W_state + inputs in the order input gate, forget gate, cell
\* candidate, output gate; input and forget gates see the previous cells, the
\* output gate sees the new cells.
Projection(i, j) ==
    SumTo([k \in 1..Dim |-> args.states[i][k] * W_state[k][j]], Dim)
        + args.inputs.val[i][j]
Gate(x) == Logistic(<<<<x>>>>)[1][1]
Activation(x) == Tanh(<<<<x>>>>)[1][1]
InputGate(i, j) == Gate(Projection(i, j) + args.cells[i][j] * W_cell_to_in[j])
ForgetGate(i, j) ==
    Gate(Projection(i, Dim + j) + args.cells[i][j] * W_cell_to_forget[j])
NextCell(i, j) ==
    ForgetGate(i, j) * args.cells[i][j]
        + InputGate(i, j) * Activation(Projection(i, 2 * Dim + j))
OutputGate(i, j) ==
    Gate(Projection(i, 3 * Dim + j) + NextCell(i, j) * W_cell_to_out[j])
C8_GatedTransition ==
    (Returned /\ ~args.mask.given /\ ~args.inputs.bcast) =>
        \A i \in 1..batch_size, j \in 1..Dim :
            /\ results.out[3][i][j] = InputGate(i, j)
            /\ results.out[4][i][j] = ForgetGate(i, j)
            /\ results.out[2][i][j] = NextCell(i, j)
            /\ results.out[5][i][j] = OutputGate(i, j)
            /\ results.out[1][i][j] = OutputGate(i, j) * Activation(NextCell(i, j))
\* An unmasked step where the output gate would differ had it seen the
\* previous cells, and where the four gate slices hold different values.
C8_Witness ==
    /\ Returned /\ ~args.mask.given /\ ~args.inputs.bcast
    /\ \E i \in 1..batch_size, j \in 1..Dim :
        /\ OutputGate(i, j) #
             Gate(Projection(i, 3 * Dim + j) + args.cells[i][j] * W_cell_to_out[j])
        /\ results.out[5][i][j] = OutputGate(i, j)
        /\ InputGate(i, j) # ForgetGate(i, j)
        /\ Projection(i, 2 * Dim + j) # Projection(i, 3 * Dim + j)

\* C9: the three gate tensors are the same whatever the mask, apply
\* registers them as input_gates, forget_gates and output_gates, and apply
\* returns the first two results of inner_apply.
C9_MaskLeavesGates ==
    Returned =>
        /\ \A m \in Masks(batch_size) :
            LET other == inner_apply(args.inputs, args.states, args.cells, m).out
            IN  /\ other[3] = results.out[3]
                /\ other[4] = results.out[4]
                /\ other[5] = results.out[5]
        /\ aux = [input_gates |-> results.out[3],
                  forget_gates |-> results.out[4],
                  output_gates |-> results.out[5]]
        /\ ret = <<results.out[1], results.out[2]>>
C9_Witness ==
    /\ Returned /\ batch_size = 2
    /\ args.mask = Tensor(<<0, 0>>)
    /\ Unmasked[1] # results.out[1]
    /\ aux.input_gates[1] # aux.output_gates[1]
    /\ aux.forget_gates[1] # aux.output_gates[1]
    /\ ret = <<args.states, args.cells>>

\* C3: get_definitions looks the whole query string up as one key and
\* returns that key's definition list in stored order; on the dictionary of
\* the test, 'a' gives [['b','c'],['d','e']] and 'd c' gives [['a','b']].
C3_PhraseLookup ==
    (dict_status = "loaded" /\ lookups > 0 /\ query \in DOMAIN data) =>
        /\ ~lookup_error
        /\ defs = data[query]
        /\ (file = TEST_DICT_JSON /\ query = "a") =>
                defs = <<<<"b", "c">>, <<"d", "e">>>>
        /\ (file = TEST_DICT_JSON /\ query = "d c") => defs = <<<<"a", "b">>>>
\* 'd c' looked up in a dictionary that also defines 'd' and 'c'.
C3_Witness ==
    /\ dict_status = "loaded" /\ lookups > 0 /\ query = "d c"
    /\ {"d c", "d", "c"} \subseteq DOMAIN data
    /\ data["d"] # data["d c"] /\ data["c"] # data["d c"]
    /\ defs = data["d c"]

\* C4: a lookup of a key the loaded data does not hold returns the empty
\* list, raises nothing and leaves the dictionary as it was.
C4_AbsentKey ==
    (lookups' = lookups + 1 /\ query' \notin DOMAIN data) =>
        /\ defs' = <<>>
        /\ ~lookup_error'
        /\ data' = data
        /\ file' = file
        /\ dict_status' = dict_status
C4_AbsentKeyIsEmpty == [][C4_AbsentKey]_vars
C4_Witness ==
    /\ dict_status = "loaded" /\ lookups = 2
    /\ query = "e" /\ defs = <<>> /\ ~lookup_error
    /\ DOMAIN data = {"a", "d", "c"}

====
